---- MODULE Spec2Model ----
(***************************************************************************)
(* Bisulfite DNA primer designer: the base alphabet, IUPAC compatibility,  *)
(* strand derivation and degenerate search of src/services/dnaUtils.ts     *)
(* (the current definitions, lines 314-607; lines 1-312 hold an earlier    *)
(* revision of the same file, used here only where the current revision no *)
(* longer defines a function).                                             *)
(*                                                                         *)
(* A JavaScript string is a sequence of one-character strings; JavaScript  *)
(* indices are 0-based, so s[i] of the source is s[i + 1] here (charAt).   *)
(***************************************************************************)
EXTENDS Integers, Sequences, FiniteSets, TLC

VARIABLES
    primerBase, templateBase, pcCompat, compatible,
    seq, fn, calls, complemented,
    sequence, methylatedF, methylatedR, pcStrand, strandSequences,
    strandSeq, query, strandType, maxMismatches, pcSearch, results,
    primerSequence, crossTarget, pcStructure, hairpin, selfDimer, crossDimer,
    rawSequence, templateSequence, isMGB, settings, pcThermo, stats,
    data, selection, showPrimerDialog, editingPrimer, dialogSequence

vars ==
    << primerBase, templateBase, pcCompat, compatible,
       seq, fn, calls, complemented,
       sequence, methylatedF, methylatedR, pcStrand, strandSequences,
       strandSeq, query, strandType, maxMismatches, pcSearch, results,
       primerSequence, crossTarget, pcStructure, hairpin, selfDimer, crossDimer,
       rawSequence, templateSequence, isMGB, settings, pcThermo, stats,
       data, selection, showPrimerDialog, editingPrimer, dialogSequence >>

compatVars == << primerBase, templateBase, pcCompat, compatible >>
complementVars == << seq, fn, calls, complemented >>
strandVars == << sequence, methylatedF, methylatedR, pcStrand, strandSequences >>
searchVars == << strandSeq, query, strandType, maxMismatches, pcSearch, results >>
structureVars ==
    << primerSequence, crossTarget, pcStructure, hairpin, selfDimer, crossDimer >>
thermoVars == << rawSequence, templateSequence, isMGB, settings, pcThermo, stats >>
projectVars == << data, selection, showPrimerDialog, editingPrimer, dialogSequence >>

----------------------------------------------------------------------------
(* Bounds of the model.                                                    *)

\* longest string given to the complement functions
MaxSeqLen == 3
\* longest top strand given to the strand derivation
MaxTopLen == 2
\* most entries in a methylation index array
MaxMarks == 1
\* longest strand searched
MaxStrandLen == 3
\* longest raw query
MaxQueryLen == 2
\* largest mismatch budget
MaxMismatch == 1

----------------------------------------------------------------------------
(* JavaScript values and string primitives.                                *)

\* the value of a missing argument or of an out-of-range s[i]
undefined == "undefined"

LowerLetters ==
    << "a", "t", "c", "g", "r", "y", "s", "w", "k", "m", "b", "d", "h", "v", "n", "x" >>

UpperLetters ==
    << "A", "T", "C", "G", "R", "Y", "S", "W", "K", "M", "B", "D", "H", "V", "N", "X" >>

\* String.prototype.toUpperCase on a string of at most one character
upperChar(c) ==
    IF \E i \in DOMAIN LowerLetters : LowerLetters[i] = c
    THEN UpperLetters[CHOOSE i \in DOMAIN LowerLetters : LowerLetters[i] = c]
    ELSE c

\* String.prototype.toLowerCase on a string of at most one character
lowerChar(c) ==
    IF \E i \in DOMAIN UpperLetters : UpperLetters[i] = c
    THEN LowerLetters[CHOOSE i \in DOMAIN UpperLetters : UpperLetters[i] = c]
    ELSE c

toUpperCase(s) == [i \in DOMAIN s |-> upperChar(s[i])]

toLowerCase(s) == [i \in DOMAIN s |-> lowerChar(s[i])]

\* s[i] of the source, i counted from 0
charAt(s, i) == IF i >= 0 /\ i < Len(s) THEN s[i + 1] ELSE undefined

\* s.split('').reverse().join('')
reverse(s) == [i \in DOMAIN s |-> s[Len(s) + 1 - i]]

\* Array.prototype.includes
includes(arr, x) == \E i \in DOMAIN arr : arr[i] = x

\* every string over alphabet A of length 0..n
StringsUpTo(A, n) == UNION { [1..k -> A] : k \in 0..n }

----------------------------------------------------------------------------
(* Base alphabet and IUPAC compatibility.                                  *)

COMPLEMENTS_caseLost ==
    ("a" :> "t") @@ ("t" :> "a") @@ ("c" :> "g") @@ ("g" :> "c") @@
    ("A" :> "T") @@ ("T" :> "A") @@ ("C" :> "G") @@ ("G" :> "c")

COMPLEMENTS ==
    ("a" :> "t") @@ ("t" :> "a") @@ ("c" :> "g") @@ ("g" :> "c") @@
    ("A" :> "T") @@ ("T" :> "A") @@ ("C" :> "G") @@ ("G" :> "C")

IUPAC_MAP_shortN ==
    ("A" :> {"A"}) @@ ("a" :> {"A"}) @@ ("T" :> {"T"}) @@ ("t" :> {"T"}) @@
    ("C" :> {"C"}) @@ ("c" :> {"C"}) @@ ("G" :> {"G"}) @@ ("g" :> {"G"}) @@
    ("R" :> {"A", "G"}) @@ ("Y" :> {"C", "T"}) @@ ("S" :> {"G", "C"}) @@
    ("W" :> {"A", "T"}) @@ ("K" :> {"G", "T"}) @@ ("M" :> {"A", "C"}) @@
    ("B" :> {"C", "G", "T"}) @@ ("D" :> {"A", "G", "T"}) @@
    ("H" :> {"A", "C", "T"}) @@ ("V" :> {"A", "C", "G"}) @@
    ("N" :> {"A", "T", "C"})

IUPAC_MAP ==
    ("A" :> {"A"}) @@ ("a" :> {"A"}) @@ ("T" :> {"T"}) @@ ("t" :> {"T"}) @@
    ("C" :> {"C"}) @@ ("c" :> {"C"}) @@ ("G" :> {"G"}) @@ ("g" :> {"G"}) @@
    ("R" :> {"A", "G"}) @@ ("Y" :> {"C", "T"}) @@ ("S" :> {"G", "C"}) @@
    ("W" :> {"A", "T"}) @@ ("K" :> {"G", "T"}) @@ ("M" :> {"A", "C"}) @@
    ("B" :> {"C", "G", "T"}) @@ ("D" :> {"A", "G", "T"}) @@
    ("H" :> {"A", "C", "T"}) @@ ("V" :> {"A", "C", "G"}) @@
    ("N" :> {"A", "T", "C", "G"})

\* the earlier revision's body: no equality fallback for a primer base of the table
isBaseCompatible_tableOnly(p, t) ==
    LET pU == upperChar(p)
        tU == upperChar(t)
    IN  IF pU \notin DOMAIN IUPAC_MAP THEN pU = tU ELSE tU \in IUPAC_MAP[pU]

\* IUPAC_MAP[pU]?.includes(tU) || pU === tU, for string arguments
isBaseCompatible(p, t) ==
    LET pU == upperChar(p)
        tU == upperChar(t)
    IN  (pU \in DOMAIN IUPAC_MAP /\ tU \in IUPAC_MAP[pU]) \/ pU = tU

\* seq.split('').map(b => COMPLEMENTS[b] || b).join('')
getComplement(s) ==
    [i \in DOMAIN s |-> IF s[i] \in DOMAIN COMPLEMENTS THEN COMPLEMENTS[s[i]] ELSE s[i]]

\* getComplement(seq).split('').reverse().join('')
getReverseComplement(s) == reverse(getComplement(s))

----------------------------------------------------------------------------
(* Strand derivation.                                                      *)

\* every listed position written as 'c' whatever base it holds, the other c's converted
bisConvert_forceC(s, indices) ==
    [i \in DOMAIN s |->
        IF includes(indices, i - 1) THEN "c" ELSE IF s[i] = "c" THEN "t" ELSE s[i]]

\* every 'c' converted, the methylation indices ignored
bisConvert_ignoreMethylation(s, indices) ==
    [i \in DOMAIN s |-> IF s[i] = "c" THEN "t" ELSE s[i]]

\* s.split('').map((b, i) => (b === 'c' && !indices.includes(i)) ? 't' : b).join('')
bisConvert(s, indices) ==
    [i \in DOMAIN s |-> IF s[i] = "c" /\ ~includes(indices, i - 1) THEN "t" ELSE s[i]]

StrandType == {"F", "R", "OT", "CTOT", "OB", "CTOB"}

\* R returned as the reverse complement instead of the aligned complement
getStrandSequence_reverseR(f, mF, mR, type) ==
    LET fs == toLowerCase(f)
        rs == getComplement(fs)
    IN  CASE type = "F" -> fs
          [] type = "R" -> reverse(rs)
          [] type = "OT" -> bisConvert(fs, mF)
          [] type = "CTOT" -> getComplement(bisConvert(fs, mF))
          [] type = "OB" -> bisConvert(rs, mR)
          [] type = "CTOB" -> getComplement(bisConvert(rs, mR))
          [] OTHER -> fs

\* the bottom family converted against the top strand's methylation array
getStrandSequence_oneArray(f, mF, mR, type) ==
    LET fs == toLowerCase(f)
        rs == getComplement(fs)
    IN  CASE type = "F" -> fs
          [] type = "R" -> rs
          [] type = "OT" -> bisConvert(fs, mF)
          [] type = "CTOT" -> getComplement(bisConvert(fs, mF))
          [] type = "OB" -> bisConvert(rs, mF)
          [] type = "CTOB" -> getComplement(bisConvert(rs, mF))
          [] OTHER -> fs

\* the bottom family with characters outside the complement table dropped
getStrandSequence_dropUnknown(f, mF, mR, type) ==
    LET fs == toLowerCase(f)
        known(b) == b \in DOMAIN COMPLEMENTS
        rs == getComplement(SelectSeq(fs, known))
    IN  CASE type = "F" -> fs
          [] type = "R" -> rs
          [] type = "OT" -> bisConvert(fs, mF)
          [] type = "CTOT" -> getComplement(bisConvert(fs, mF))
          [] type = "OB" -> bisConvert(rs, mR)
          [] type = "CTOB" -> getComplement(bisConvert(rs, mR))
          [] OTHER -> fs

getStrandSequence(f, mF, mR, type) ==
    LET fs == toLowerCase(f)
        rs == getComplement(fs)
    IN  CASE type = "F" -> fs
          [] type = "R" -> rs
          [] type = "OT" -> bisConvert(fs, mF)
          [] type = "CTOT" -> getComplement(bisConvert(fs, mF))
          [] type = "OB" -> bisConvert(rs, mR)
          [] type = "CTOB" -> getComplement(bisConvert(rs, mR))
          [] OTHER -> fs

----------------------------------------------------------------------------
(* Degenerate search.                                                      *)

\* query.replace(/[\[\]]/g, '')
stripBrackets(q) ==
    LET kept(c) == c \notin {"[", "]"}
    IN  SelectSeq(q, kept)

\* the complementary strands taken for the reverse-displayed ones
isRev_complementary(type) == type \in {"R", "CTOT", "CTOB"}

isRev(type) == type \in {"R", "CTOT", "OB"}

\* the inner loop over j from position j on: counts incompatible positions and
\* breaks as soon as the count exceeds maxMis
RECURSIVE countMis(_, _, _, _, _, _)
countMis(pattern, subject, i, j, mis, maxMis) ==
    IF j >= Len(pattern)
    THEN mis
    ELSE LET mis2 == IF ~isBaseCompatible(charAt(pattern, j), charAt(subject, i + j))
                     THEN mis + 1
                     ELSE mis
         IN  IF mis2 > maxMis THEN mis2 ELSE countMis(pattern, subject, i, j + 1, mis2, maxMis)

\* the outer loop from offset i up to the last offset, appending a hit per offset
\* within budget
RECURSIVE scanFrom(_, _, _, _, _, _)
scanFrom(pattern, subject, i, last, maxMis, acc) ==
    IF i > last
    THEN acc
    ELSE LET mis == countMis(pattern, subject, i, 0, 0, maxMis)
             m == Len(pattern)
         IN  scanFrom(pattern, subject, i + 1, last, maxMis,
                      IF mis <= maxMis
                      THEN Append(acc, [start |-> i, end |-> i + m - 1, mismatches |-> mis])
                      ELSE acc)

\* the scan stopping one offset short of the end of the strand
searchSequence_shortScan(subject, q, type, maxMis) ==
    LET cleanQuery == stripBrackets(q)
        n == Len(subject)
        m == Len(cleanQuery)
        pattern == IF isRev(type) THEN toUpperCase(reverse(cleanQuery)) ELSE toUpperCase(cleanQuery)
    IN  IF m = 0 \/ m > n
        THEN << >>
        ELSE scanFrom(pattern, subject, 0, n - m - 1, maxMis, << >>)

searchSequence(subject, q, type, maxMis) ==
    LET cleanQuery == stripBrackets(q)
        n == Len(subject)
        m == Len(cleanQuery)
        pattern == IF isRev(type) THEN toUpperCase(reverse(cleanQuery)) ELSE toUpperCase(cleanQuery)
    IN  IF m = 0 \/ m > n
        THEN << >>
        ELSE scanFrom(pattern, subject, 0, n - m, maxMis, << >>)

----------------------------------------------------------------------------
(* JavaScript numbers. A number of the scorers is an IEEE-754 binary64     *)
(* value: a sign and a magnitude. The magnitude is held exactly, as six    *)
(* limbs of 24 bits, most significant first: the first limb is the integer *)
(* part and the other five are 120 fractional bits. Every operation        *)
(* computes the exact result and rounds it to 53 significant bits, ties to *)
(* even, as the hardware does. The numbers of the scorers and of dH, dS    *)
(* and dG stay below 2^24 and have no bit below 2^-120.                    *)

Limb == 16777216

Limbs == 6

\* number of significant bits of a limb
RECURSIVE bitLength(_)
bitLength(n) == IF n = 0 THEN 0 ELSE 1 + bitLength(n \div 2)

magZero == [i \in 1 .. Limbs |-> 0]

\* the natural n < 2^24
magOf(n) == [i \in 1 .. Limbs |-> IF i = 1 THEN n ELSE 0]

magLess(x, y) ==
    \E i \in 1 .. Limbs : x[i] < y[i] /\ \A j \in 1 .. i - 1 : x[j] = y[j]

\* limbs after carries: t holds unreduced limb totals, each below 2^31 - 2^7
carried(t) ==
    LET c[i \in 1 .. Limbs + 1] ==
            IF i = Limbs + 1 THEN 0 ELSE (t[i] + c[i + 1]) \div Limb
    IN  [i \in 1 .. Limbs |-> (t[i] + c[i + 1]) % Limb]

magAdd(x, y) == carried([i \in 1 .. Limbs |-> x[i] + y[i]])

\* x - y for x >= y
magSub(x, y) == carried([i \in 1 .. Limbs |-> x[i] - y[i]])

\* n * x for a natural n < 2^7
magTimes(n, x) == carried([i \in 1 .. Limbs |-> n * x[i]])

\* floor(x / d) for a natural d < 2^7, the last bit set when x / d is inexact
magDivSticky(x, d) ==
    LET r[i \in 0 .. Limbs] == IF i = 0 THEN 0 ELSE (r[i - 1] * Limb + x[i]) % d
        q == [i \in 1 .. Limbs |-> (r[i - 1] * Limb + x[i]) \div d]
    IN  IF r[Limbs] # 0 /\ q[Limbs] % 2 = 0
        THEN [q EXCEPT ![Limbs] = q[Limbs] + 1]
        ELSE q

\* the limbs of x as digits of 12 bits, two a limb
halves(x) ==
    [k \in 1 .. 2 * Limbs |->
        IF k % 2 = 1 THEN x[(k + 1) \div 2] \div 4096 ELSE x[k \div 2] % 4096]

\* the sum of xd[j] * yd[k] over the digit pairs from j on that fall on digit r
\* of the product
RECURSIVE columnSum(_, _, _, _)
columnSum(xd, yd, r, j) ==
    IF j > 2 * Limbs \/ j > r + 1 THEN 0
    ELSE IF r + 2 - j > 2 * Limbs THEN columnSum(xd, yd, r, j + 1)
    ELSE xd[j] * yd[r + 2 - j] + columnSum(xd, yd, r, j + 1)

\* the digits 1 .. r of the product, carry coming in from digit r + 1
RECURSIVE productDigits(_, _, _, _)
productDigits(xd, yd, r, carry) ==
    IF r = 0 THEN << >>
    ELSE LET total == columnSum(xd, yd, r, 1) + carry
         IN  Append(productDigits(xd, yd, r - 1, total \div 4096), total % 4096)

\* x * y, exact while no bit of the product lies below 2^-120
magProduct(x, y) ==
    LET d == productDigits(halves(x), halves(y), 2 * Limbs, 0)
    IN  [i \in 1 .. Limbs |-> d[2 * i - 1] * 4096 + d[2 * i]]

\* index of the highest set bit, counted from the last bit of the last limb;
\* -1 for zero
highBit(x) ==
    IF x = magZero THEN -1
    ELSE LET i == CHOOSE i \in 1 .. Limbs : x[i] # 0 /\ \A j \in 1 .. i - 1 : x[j] = 0
         IN  24 * (Limbs - i) + bitLength(x[i]) - 1

\* the dropped bits against a half of the last kept bit: above it, or equal
\* to it with the last kept bit odd
roundsUp(half, dropped, odd) == magLess(half, dropped) \/ (half = dropped /\ odd)

\* x rounded at limb t, of which the bits below unit are dropped with the
\* limbs after it
roundLimb(x, t, unit) ==
    LET dropped == [i \in 1 .. Limbs |->
                       IF i < t THEN 0 ELSE IF i = t THEN x[t] % unit ELSE x[i]]
        half == IF unit > 1 THEN [i \in 1 .. Limbs |-> IF i = t THEN unit \div 2 ELSE 0]
                ELSE [i \in 1 .. Limbs |-> IF i = t + 1 THEN 8388608 ELSE 0]
        kept == [i \in 1 .. Limbs |->
                    IF i < t THEN x[i] ELSE IF i = t THEN x[t] - (x[t] % unit) ELSE 0]
        ulp == [i \in 1 .. Limbs |-> IF i = t THEN unit ELSE 0]
    IN  IF roundsUp(half, dropped, (x[t] \div unit) % 2 = 1) THEN magAdd(kept, ulp)
        ELSE kept

\* x with its last k bits dropped
roundAt(x, k) ==
    IF k <= 0 THEN x ELSE roundLimb(x, Limbs - (k \div 24), 2 ^ (k % 24))

\* round to nearest, ties to even, at 53 significant bits
roundMag(x) == roundAt(x, highBit(x) - 52)

Number(neg, m) == [neg |-> neg /\ m # magZero, m |-> m]

\* the integer n as a number, |n| < 2^24
num(n) == IF n >= 0 THEN Number(FALSE, magOf(n)) ELSE Number(TRUE, magOf(-n))

\* x / (d1 * d2 * ...) for a number x and the naturals d1, d2, ... < 2^7 of
\* divisors, rounded once
RECURSIVE magOver(_, _, _)
magOver(m, divisors, i) ==
    IF i > Len(divisors) THEN m
    ELSE magOver(magDivSticky(m, divisors[i]), divisors, i + 1)

over(x, divisors) == Number(x.neg, roundMag(magOver(x.m, divisors, 1)))

\* the number a decimal literal with one fractional digit denotes
lit(tenths) == over(num(tenths), << 10 >>)

\* x + y
add(x, y) ==
    IF x.neg = y.neg THEN Number(x.neg, roundMag(magAdd(x.m, y.m)))
    ELSE IF magLess(x.m, y.m) THEN Number(y.neg, roundMag(magSub(y.m, x.m)))
    ELSE Number(x.neg, roundMag(magSub(x.m, y.m)))

\* x - y
sub(x, y) == add(x, Number(~y.neg, y.m))

\* n * x for a natural n < 2^7
times(n, x) == Number(x.neg, roundMag(magTimes(n, x.m)))

\* x * y
mul(x, y) == Number(x.neg # y.neg, roundMag(magProduct(x.m, y.m)))

\* x < y
lessThan(x, y) ==
    IF x.neg /\ ~y.neg THEN TRUE
    ELSE IF ~x.neg /\ y.neg THEN FALSE
    ELSE IF x.neg THEN magLess(y.m, x.m)
    ELSE magLess(x.m, y.m)

----------------------------------------------------------------------------
(* Structure scorers.                                                      *)

\* the value of a scorer that found no structure
null == [isNull |-> TRUE]

max(a, b) == IF a >= b THEN a ELSE b

min(a, b) == IF a <= b THEN a ELSE b

\* s.substring(a, b) for 0 <= a <= b <= s.length
substring(s, a, b) == SubSeq(s, a + 1, b)

\* the literals of the scorers: 0, 1.8 and 0.3 of the dimer; 3.0, 2.0, 4.5
\* and 0.1 of the hairpin
zero == lit(0)

pairDg == lit(18)

mismatchDg == lit(3)

gcStemDg == lit(-30)

atStemDg == lit(-20)

loopBaseDg == lit(45)

loopPerBaseDg == lit(1)

\* q1[i] === getComplement(q2Rev[i - shift]).toUpperCase()
pairs(q1, q2Rev, shift, i) ==
    charAt(q1, i) = toUpperCase(getComplement(<< charAt(q2Rev, i - shift) >>))[1]

\* for (let i = oS; i < oE; i++): matches++ and dg -= 1.8, or dg += 0.3; the
\* loop's variables i, matches and dg are the record v
RECURSIVE scoreOverlap(_, _, _, _, _)
scoreOverlap(q1, q2Rev, shift, oE, v) ==
    IF v.i >= oE THEN v
    ELSE IF pairs(q1, q2Rev, shift, v.i)
         THEN scoreOverlap(q1, q2Rev, shift, oE,
                           [i |-> v.i + 1, matches |-> v.matches + 1,
                            dg |-> sub(v.dg, pairDg)])
         ELSE scoreOverlap(q1, q2Rev, shift, oE,
                           [i |-> v.i + 1, matches |-> v.matches,
                            dg |-> add(v.dg, mismatchDg)])

\* matches and dg of one shift
scoreShift(q1, q2Rev, shift) ==
    scoreOverlap(q1, q2Rev, shift, min(Len(q1), shift + Len(q2Rev)),
                 [i |-> max(0, shift), matches |-> 0, dg |-> zero])

\* the first candidate kept, later and lower ones ignored
accepts_first(o, best) == o.matches >= 2 /\ best = null /\ lessThan(o.dg, zero)

\* matches >= 2 && dg < (best?.dg || 0)
accepts(o, best) ==
    o.matches >= 2 /\ lessThan(o.dg, IF best = null THEN zero ELSE best.dg)

\* for (let shift = ...; shift < q1.length; shift++); the loop's variables
\* shift and best are the record v
RECURSIVE dimerFrom(_, _, _)
dimerFrom(q1, q2Rev, v) ==
    IF v.shift >= Len(q1) THEN v.best
    ELSE LET o == scoreShift(q1, q2Rev, v.shift)
         IN  dimerFrom(q1, q2Rev,
                       [shift |-> v.shift + 1,
                        best |-> IF accepts(o, v.best) THEN [dg |-> o.dg] ELSE v.best])

\* rawSequence.replace(/\[[^\]]*\]/g, ''), from position i on: a "[" with a
\* later "]" is deleted together with everything up to the first such "]"
RECURSIVE removeTailsFrom(_, _)
removeTailsFrom(s, i) ==
    IF i > Len(s) THEN << >>
    ELSE IF s[i] = "[" /\ \E j \in i + 1 .. Len(s) : s[j] = "]"
         THEN removeTailsFrom(s, 1 + CHOOSE j \in i + 1 .. Len(s) :
                                     s[j] = "]" /\ \A k \in i + 1 .. j - 1 : s[k] # "]")
         ELSE << s[i] >> \o removeTailsFrom(s, i + 1)

removeTails(s) == removeTailsFrom(s, 1)

\* the dimer scored on the binding region only
findMostStableDimer_bindingOnly(s1, s2) ==
    LET q1 == toUpperCase(removeTails(s1))
        q2 == toUpperCase(removeTails(s2))
    IN  dimerFrom(q1, reverse(q2), [shift |-> 1 - Len(q2), best |-> null])

\* the result is its dg; the alignment lines are display strings
findMostStableDimer(s1, s2) ==
    LET q1 == toUpperCase(stripBrackets(s1))
        q2 == toUpperCase(stripBrackets(s2))
    IN  dimerFrom(q1, reverse(q2), [shift |-> 1 - Len(q2), best |-> null])

\* for (const char of st1) stemDg += (char === 'G' || char === 'C') ? -3.0 : -2.0;
\* v holds the position in st1 and stemDg
\* every pair of the stem at -2.0, as in the earlier revision
RECURSIVE stemEnergy_uniform(_, _)
stemEnergy_uniform(st1, v) ==
    IF v.i > Len(st1) THEN v.stemDg
    ELSE stemEnergy_uniform(st1, [i |-> v.i + 1, stemDg |-> add(v.stemDg, atStemDg)])

RECURSIVE stemEnergy(_, _)
stemEnergy(st1, v) ==
    IF v.i > Len(st1) THEN v.stemDg
    ELSE stemEnergy(st1,
                    [i |-> v.i + 1,
                     stemDg |-> add(v.stemDg,
                                    IF st1[v.i] \in {"G", "C"} THEN gcStemDg ELSE atStemDg)])

\* st2.split('').reverse().map(b => COMPLEMENTS[b] || 'N').join('')
revComp(st2) ==
    LET r == reverse(st2)
    IN  [i \in DOMAIN r |-> IF r[i] \in DOMAIN COMPLEMENTS THEN COMPLEMENTS[r[i]] ELSE "N"]

\* the inner loop over the loop length lL for a stem length sL; the loop's
\* variables lL and best are the record v
RECURSIVE hairpinLoops(_, _, _)
hairpinLoops(str, sL, v) ==
    LET n == Len(str)
        s2S == n - sL
        s1E == s2S - v.lL
        s1S == s1E - sL
        next(best) == [lL |-> v.lL + 1, best |-> best]
    IN  IF ~(v.lL <= n - 2 * sL) THEN v.best
        ELSE IF s1S < 0 THEN hairpinLoops(str, sL, next(v.best))
        ELSE LET st1 == substring(str, s1S, s1S + sL)
                 st2 == substring(str, s2S, n)
                 loopDg == add(loopBaseDg, times(v.lL, loopPerBaseDg))
                 dg == add(stemEnergy(st1, [i |-> 1, stemDg |-> zero]), loopDg)
             IN  IF st1 = revComp(st2) /\ (v.best = null \/ lessThan(dg, v.best.dg))
                 THEN hairpinLoops(str, sL, next([dg |-> dg, stem |-> st1,
                                                  loop |-> substring(str, s1E, s2S)]))
                 ELSE hairpinLoops(str, sL, next(v.best))

\* the outer loop over the stem length sL; the loop's variables sL and best are
\* the record v
RECURSIVE hairpinFrom(_, _)
hairpinFrom(str, v) ==
    IF ~(2 * v.sL < Len(str)) THEN v.best
    ELSE hairpinFrom(str, [sL |-> v.sL + 1,
                           best |-> hairpinLoops(str, v.sL, [lL |-> 3, best |-> v.best])])

\* the result is its dg with the st1 and the loop that its alignment lines show
findMostStableHairpin(s) ==
    hairpinFrom(toUpperCase(stripBrackets(s)), [sL |-> 3, best |-> null])

----------------------------------------------------------------------------
(* Thermodynamics. dH, dS, dG and GC% are JavaScript numbers. Tm passes    *)
(* through Math.log and is computed in fixed point: concentrations in      *)
(* units of 10^-10 mol/L, logarithms in thousandths, inverse temperatures  *)
(* in units of 10^-8 / K and temperatures in thousandths of a degree.      *)

\* oligoConc in hundredths of a micromole per litre, naConc, mgConc and
\* dntpConc in tenths of a millimole per litre
DEFAULT_THERMO_SETTINGS == [oligoConc |-> 25, naConc |-> 500, mgConc |-> 30, dntpConc |-> 8]

\* SantaLucia 1998 parameters, h and s in tenths
NN_PARAMS ==
    [aa |-> [h |-> -79, s |-> -222], tt |-> [h |-> -79, s |-> -222],
     at |-> [h |-> -72, s |-> -204], ta |-> [h |-> -72, s |-> -213],
     ca |-> [h |-> -85, s |-> -227], tg |-> [h |-> -85, s |-> -227],
     gt |-> [h |-> -84, s |-> -224], ac |-> [h |-> -84, s |-> -224],
     ct |-> [h |-> -78, s |-> -210], ag |-> [h |-> -78, s |-> -210],
     ga |-> [h |-> -82, s |-> -222], tc |-> [h |-> -82, s |-> -222],
     cg |-> [h |-> -106, s |-> -272], gc |-> [h |-> -98, s |-> -244],
     gg |-> [h |-> -80, s |-> -199], cc |-> [h |-> -80, s |-> -199]]

\* s.replace(/[^a-zA-Z]/g, '')
lettersOnly(s) ==
    LET letter(c) == includes(LowerLetters, c) \/ includes(UpperLetters, c)
    IN  SelectSeq(s, letter)

\* the tail contents kept, only the brackets dropped with the other non-letters
bindingSequenceOf_bracketsOnly(rawSeq) == toLowerCase(lettersOnly(rawSeq))

\* rawSequence.replace(/\[[^\]]*\]/g, '').replace(/[^a-zA-Z]/g, '').toLowerCase()
bindingSequenceOf(rawSeq) == toLowerCase(lettersOnly(removeTails(rawSeq)))

\* every uppercase character counted, a tail's too
lnaCountOf_wholeString(rawSeq) ==
    LET lna(c) == includes(UpperLetters, c)
    IN  Len(SelectSeq(rawSeq, lna))

\* rawSequence.replace(/\[[^\]]*\]/g, '').split('').filter(c => /[A-Z]/.test(c)).length
lnaCountOf(rawSeq) ==
    LET lna(c) == includes(UpperLetters, c)
    IN  Len(SelectSeq(removeTails(rawSeq), lna))

\* if (n < 2) return { tm: 0, dg: 0, gc: 0 }
tooShort(n) == n < 2

sentinel == [tm |-> 0, dg |-> zero, gc |-> zero]

\* tSeq && tSeq[i] && !isBaseCompatible(bindingSequence[i], tSeq[i])
mismatchAt(bindingSequence, tSeq, i) ==
    /\ Len(tSeq) > 0
    /\ i < Len(tSeq)
    /\ ~isBaseCompatible(charAt(bindingSequence, i), charAt(tSeq, i))

\* the loop over the nearest-neighbour steps: dh += p.h, ds += p.s when the
\* pair is in the table, mismatchCount++ on an incompatible template base; the
\* loop's variables are the record v
RECURSIVE nnSummation(_, _, _)
nnSummation(bindingSequence, tSeq, v) ==
    IF ~(v.i < Len(bindingSequence) - 1) THEN v
    ELSE LET pair == charAt(bindingSequence, v.i) \o charAt(bindingSequence, v.i + 1)
             known == pair \in DOMAIN NN_PARAMS
         IN  nnSummation(bindingSequence, tSeq,
                 [i |-> v.i + 1,
                  dh |-> IF known THEN add(v.dh, lit(NN_PARAMS[pair].h)) ELSE v.dh,
                  ds |-> IF known THEN add(v.ds, lit(NN_PARAMS[pair].s)) ELSE v.ds,
                  mismatchCount |-> IF mismatchAt(bindingSequence, tSeq, v.i)
                                    THEN v.mismatchCount + 1 ELSE v.mismatchCount])

\* the penalty for a terminal A alone
terminalAT_onlyA(bindingSequence, i, t) ==
    IF charAt(bindingSequence, i) = "a"
    THEN [t EXCEPT !.dh = add(t.dh, lit(22)), !.ds = add(t.ds, lit(69))]
    ELSE t

\* a terminal A or T: dh += 2.2, ds += 6.9
terminalAT(bindingSequence, i, t) ==
    IF charAt(bindingSequence, i) \in {"a", "t"}
    THEN [t EXCEPT !.dh = add(t.dh, lit(22)), !.ds = add(t.ds, lit(69))]
    ELSE t

\* after the loop over the steps: the mismatch check of the last base, the
\* initiation dh += 0.2, ds += -5.7 and the two terminal penalties
afterSummation(bindingSequence, tSeq, v) ==
    terminalAT(bindingSequence, Len(bindingSequence) - 1,
        terminalAT(bindingSequence, 0,
            [dh |-> add(v.dh, lit(2)),
             ds |-> add(v.ds, lit(-57)),
             mismatchCount |->
                 IF mismatchAt(bindingSequence, tSeq, Len(bindingSequence) - 1)
                 THEN v.mismatchCount + 1 ELSE v.mismatchCount]))

\* dh, ds and mismatchCount before the salt correction (steps 2 to 4)
totals(bindingSequence, tSeq) ==
    afterSummation(bindingSequence, tSeq,
        nnSummation(bindingSequence, tSeq,
                    [i |-> 0, dh |-> zero, ds |-> zero, mismatchCount |-> 0]))

\* the integer nearest to 10 x, for a number x that is a whole number of
\* tenths up to rounding error
tenths(x) ==
    LET t == magAdd(magTimes(10, x.m),
                    [i \in 1 .. Limbs |-> IF i = 2 THEN 8388608 ELSE 0])[1]
    IN  IF x.neg THEN -t ELSE t

\* Math.log in thousandths, at the concentrations (in 10^-10 mol/L) that the
\* settings of the model produce
MathLog ==
    (625 :> -16588) @@ (500000000 :> -2996) @@ (22000000 :> -6119) @@
    (1000000 :> -9210) @@ (10 :> -20723)

\* k = (Math.max(settings.oligoConc, 1e-9) * 1e-6) / 4, for oligoConc >= 1e-9
kOf(s) == s.oligoConc * 25

\* Mon = Na = (settings.naConc || 0) * 1e-3
MonOf(s) == s.naConc * 1000000

\* Mg_free = Math.max(0, Mg - dNTP)
MgFreeOf(s) == max(0, s.mgConc - s.dntpConc) * 1000000

\* R_ratio < 0.22 for R_ratio = Math.sqrt(Mg_free) / (Mon === 0 ? 1e-9 : Mon):
\* with a = naConc and f = the free magnesium, both in tenths of a millimole,
\* sqrt(f 10^-4) / (a 10^-4) < 0.22 is 25 10^6 f < 121 a^2; against Mon = 1e-9
\* only Mg_free = 0 is below
ratioBelow(s) ==
    LET a == s.naConc
        f == max(0, s.mgConc - s.dntpConc)
    IN  IF a = 0 THEN f = 0 ELSE 25000000 * f < 121 * a * a

\* the ratio not consulted: monovalent only without free magnesium
saltBranch_ratioIgnored(s) ==
    IF MonOf(s) = 0 /\ MgFreeOf(s) = 0 THEN "zeroSalt"
    ELSE IF MonOf(s) > 0 /\ MgFreeOf(s) = 0 THEN "monovalent"
    ELSE "divalent"

\* the branch of step 5
saltBranch(s) ==
    IF MonOf(s) = 0 /\ MgFreeOf(s) = 0 THEN "zeroSalt"
    ELSE IF MonOf(s) > 0 /\ (MgFreeOf(s) = 0 \/ ratioBelow(s)) THEN "monovalent"
    ELSE "divalent"

abs(a) == IF a < 0 THEN -a ELSE a

\* a / b for b # 0, rounded towards zero
quotient(a, b) ==
    IF (a < 0) = (b < 0) THEN abs(a) \div abs(b) ELSE -(abs(a) \div abs(b))

\* 1 / tm1MK = (ds + R * Math.log(k)) / (dh * 1000), R = 1.9872
inverseTm1MK(dh, ds, s) ==
    LET RlnK == (19872 * MathLog[kOf(s)]) \div 1000
    IN  quotient((tenths(ds) * 1000 + RlnK) * 100, tenths(dh))

\* corr = (4.29 * fGC - 3.95) * 1e-5 * lnNa + 9.40 * 1e-6 * lnNa * lnNa
monovalentCorr(gcCount, n, s) ==
    LET lnNa == MathLog[MonOf(s)]
    IN  ((429 * gcCount - 395 * n) * lnNa) \div (100 * n)
        + (((lnNa * lnNa) \div 1000) * 940) \div 1000

\* corr = term1 + term2 + term3 of the seven coefficients a to g
divalentCorr(gcCount, n, s) ==
    LET lnMg == MathLog[max(MgFreeOf(s), 10)]
        term1 == 3920 + (-911 * lnMg) \div 1000
        term2 == (gcCount * (6260 + (1420 * lnMg) \div 1000)) \div n
        term3 == (-48200 + (52500 * lnMg) \div 1000
                         + (((lnMg * lnMg) \div 10000) * 831) \div 10)
                 \div (2 * (n - 1))
    IN  term1 + term2 + term3

\* 1 / inverse, in thousandths of a kelvin
kelvinOf(inverse) ==
    LET whole == 1000000000 \div abs(inverse)
        rest == ((1000000000 % abs(inverse)) * 100) \div abs(inverse)
    IN  IF inverse > 0 THEN whole * 100 + rest ELSE -(whole * 100 + rest)

\* tmK of step 5
tmKOf(branch, dh, ds, gcCount, n, s) ==
    IF branch = "zeroSalt" THEN 0
    ELSE IF branch = "monovalent"
         THEN kelvinOf(inverseTm1MK(dh, ds, s) + monovalentCorr(gcCount, n, s))
    ELSE kelvinOf(inverseTm1MK(dh, ds, s) + divalentCorr(gcCount, n, s))

\* the adjustments applied whatever tmK is
adjusted_always(tmK) == TRUE

\* if (tmK > 0)
adjusted(tmK) == tmK > 0

\* step 6: tm = tmK - 273.15, then the LNA, MGB and mismatch adjustments
tmOf(tmK, lnaCount, isMGBPrimer, mismatchCount, gcCount, n) ==
    LET tm == tmK - 273150
        lna == lnaCount * 4000
        mgb == IF isMGBPrimer THEN 18000 - (10000 * gcCount) \div n ELSE 0
        mis == IF mismatchCount > 0 THEN (120000 * mismatchCount) \div n ELSE 0
    IN  IF adjusted(tmK) THEN tm + lna + mgb - mis ELSE tm

\* (bindingSequence.match(/[gc]/g) || []).length
gcCountOf(bindingSequence) ==
    Cardinality({ i \in DOMAIN bindingSequence : bindingSequence[i] \in {"g", "c"} })

\* the literal 310.15
bodyTemperature == over(num(31015), << 10, 10 >>)

\* the value returned for a binding region of n >= 2 bases with the totals t:
\* tm of steps 5 and 6, dg = dh - (310.15 * ds / 1000), gc = fGC * 100
statsOf(t, gcCount, n, lnaCount, isMGBPrimer, s) ==
    [tm |-> tmOf(tmKOf(saltBranch(s), t.dh, t.ds, gcCount, n, s),
                 lnaCount, isMGBPrimer, t.mismatchCount, gcCount, n),
     dg |-> sub(t.dh, over(mul(bodyTemperature, t.ds), << 10, 10, 10 >>)),
     gc |-> times(100, over(num(gcCount), << n >>))]

\* the return path taken and the value returned
calculateThermodynamics(rawSeq, templateSeq, isMGBPrimer, s) ==
    IF tooShort(Len(bindingSequenceOf(rawSeq)))
    THEN [path |-> "tooShort", stats |-> sentinel]
    ELSE [path |-> saltBranch(s),
          stats |-> statsOf(totals(bindingSequenceOf(rawSeq),
                                   toLowerCase(lettersOnly(templateSeq))),
                            gcCountOf(bindingSequenceOf(rawSeq)),
                            Len(bindingSequenceOf(rawSeq)),
                            lnaCountOf(rawSeq), isMGBPrimer, s)]

----------------------------------------------------------------------------
(* Project state of src/App.tsx: the imported sequence, the two arrays of   *)
(* methylated indices and the primer list, edited from the toolbar, the     *)
(* viewer and the primer dialog. A primer is held with its id, sequence,    *)
(* strand, start and length; its name and MGB flag are carried through the  *)
(* handlers untouched and are left out.                                     *)

\* { sequence: seq, methylatedF: [], methylatedR: [], primers: [] }
freshProject(s) ==
    [sequence |-> s, methylatedF |-> << >>, methylatedR |-> << >>, primers |-> << >>]

\* s.slice(a, b) with 0 <= a
slice(s, a, b) == SubSeq(s, a + 1, min(b, Len(s)))

\* newIndices.indexOf(i)
indexOf(arr, x) ==
    IF includes(arr, x)
    THEN (CHOOSE k \in DOMAIN arr : arr[k] = x /\ \A j \in 1 .. k - 1 : arr[j] # x) - 1
    ELSE -1

\* newIndices.splice(idx, 1)
splice(arr, idx) == SubSeq(arr, 1, idx) \o SubSeq(arr, idx + 2, Len(arr))

\* the bottom family taken to be the strands displayed 3' to 5'
isBottom_complementaryFamily(strand) == strand \in {"R", "CTOT", "CTOB"}

\* [StrandType.R, StrandType.OB, StrandType.CTOT].includes(selection.strand)
isBottom(strand) == strand \in {"R", "OB", "CTOT"}

targetKey(strand) == IF isBottom(strand) THEN "methylatedR" ELSE "methylatedF"

\* every position of the range toggled, whatever its base
touches_anyBase(fullStrandSeq, i) == TRUE

\* fullStrandSeq[i].toLowerCase() === 'c'
touches(fullStrandSeq, i) == lowerChar(charAt(fullStrandSeq, i)) = "c"

\* for (let i = min; i <= max; i++): an index found is spliced out, an index
\* not found is pushed
RECURSIVE toggleFrom(_, _, _, _)
toggleFrom(newIndices, fullStrandSeq, i, last) ==
    IF i > last THEN newIndices
    ELSE IF ~touches(fullStrandSeq, i) THEN toggleFrom(newIndices, fullStrandSeq, i + 1, last)
    ELSE IF indexOf(newIndices, i) > -1
         THEN toggleFrom(splice(newIndices, indexOf(newIndices, i)), fullStrandSeq, i + 1, last)
         ELSE toggleFrom(Append(newIndices, i), fullStrandSeq, i + 1, last)

\* fullStrandSeq[i] is undefined from the end of the strand on, and reading
\* its toLowerCase throws a TypeError
throwsTypeError(prev, sel) == max(sel.start, sel.end) >= Len(prev.sequence)

\* the updater of handleMarkMethylation; when it throws no state is set
markMethylation(prev, sel) ==
    IF throwsTypeError(prev, sel) THEN prev
    ELSE [prev EXCEPT ![targetKey(sel.strand)] =
             toggleFrom(@, getStrandSequence(prev.sequence, prev.methylatedF,
                                             prev.methylatedR, sel.strand),
                        min(sel.start, sel.end), max(sel.start, sel.end))]

\* the selected bases, read 5' to 3', or the sequence of the primer edited
selectedSequence(d, sel, editing) ==
    IF editing # null THEN editing.sequence
    ELSE IF sel = null \/ d.sequence = << >> THEN << >>
    ELSE LET picked == toLowerCase(slice(
                 getStrandSequence(d.sequence, d.methylatedF, d.methylatedR, sel.strand),
                 min(sel.start, sel.end), max(sel.start, sel.end) + 1))
         IN  IF sel.strand \in {"R", "CTOT", "OB"} THEN reverse(picked) ELSE picked

\* showPrimerDialog && (editingPrimer || selection)
dialogMounted(show, editing, sel) == show /\ (editing # null \/ sel # null)

\* e.target.value.replace(/[^a-zA-Z RYSWKMBDHVN\[\]]/g, '')
onChangeValue(value) ==
    LET kept(c) == \/ includes(LowerLetters, c) \/ includes(UpperLetters, c)
                   \/ c \in {" ", "[", "]"}
    IN  SelectSeq(value, kept)

\* the characters of the parts of sequence.split(/(\[[^\]]*\])/g) that are not
\* a bracketed tail
bindingBases(s) == removeTails(s)

\* crypto.randomUUID(): an id no stored primer has
randomUUID(primers) ==
    CHOOSE id \in 0 .. Len(primers) : \A k \in DOMAIN primers : primers[k].id # id

\* { name, sequence, strand, start, length: bindingBases.length, isMGB }
dialogPrimer(text, editing, sel) ==
    [id |-> -1,
     sequence |-> text,
     strand |-> IF editing # null THEN editing.strand ELSE sel.strand,
     start |-> IF editing # null THEN editing.start ELSE min(sel.start, sel.end),
     length |-> Len(bindingBases(text))]

\* the updater of the dialog's onConfirm: the primer edited is replaced under
\* its id, a new primer is appended under a fresh id
confirmPrimer(prev, editing, p) ==
    IF editing # null
    THEN [prev EXCEPT !.primers =
             [k \in DOMAIN prev.primers |->
                 IF prev.primers[k].id = editing.id
                 THEN [p EXCEPT !.id = prev.primers[k].id]
                 ELSE prev.primers[k]]]
    ELSE [prev EXCEPT !.primers =
             Append(prev.primers, [p EXCEPT !.id = randomUUID(prev.primers)])]

\* prev.primers.filter(p => p.id !== id)
deletePrimer(prev, id) ==
    LET kept(p) == p.id # id
    IN  [prev EXCEPT !.primers = SelectSeq(prev.primers, kept)]

----------------------------------------------------------------------------
(* Inputs of the specifications.                                           *)

\* arguments of a compatibility call: every key of the IUPAC table, letters and
\* signs outside it, the empty string and a missing argument
BaseArgs ==
    DOMAIN IUPAC_MAP \cup {"r", "n", "x", "X", "-", "", undefined}

ConcreteBases == {"a", "c", "g", "t", "A", "C", "G", "T"}

ComplementAlphabet == ConcreteBases \cup {"n", "N", "-"}

TopAlphabet == {"c", "C", "G", "t", "n"}

\* a methylation index array for a strand of length n: negative, in-range and
\* past-the-end indices, repeats allowed
IndexArrays(n) == StringsUpTo(-1 .. n, MaxMarks)

SubjectAlphabet == {"a", "C", "g"}

QueryAlphabet == {"a", "G", "R", "[", "]"}

ExampleStrand1 == << "A", "T", "C", "G", "A", "T", "C", "G" >>

ExampleStrand2 == << "A", "T", "G", "G" >>

ExampleQuery == << "A", "T", "C", "G" >>

Subjects == StringsUpTo(SubjectAlphabet, MaxStrandLen) \cup {ExampleStrand1, ExampleStrand2}

Queries == StringsUpTo(QueryAlphabet, MaxQueryLen) \cup {ExampleQuery}

\* oligos of the structure scorers: every short string, every concatenation
\* of three chunks (stems, loops and a tail), and examples
MaxOligoLen == 2

StructAlphabet == {"A", "c", "G"}

ShortOligos == StringsUpTo(StructAlphabet, MaxOligoLen)

Chunks ==
    { << "g", "g", "g" >>, << "c", "c", "c" >>, << "[", "a", "a", "a", "]" >> }

ChunkOligos == { x \o y \o z : x \in Chunks, y \in Chunks, z \in Chunks }

\* GGGGG + AAAAA + CCCCC
ExampleHairpin == << "G", "G", "G", "G", "G", "A", "A", "A", "A", "A", "C", "C", "C", "C", "C" >>

\* two pairs at the ends of an overlap of 15, 13 mismatches between them
ExampleWeakA == << "a", "g", "g", "g", "g", "g", "g", "g", "g", "g", "g", "g", "g", "g", "a" >>

ExampleWeakB == << "t", "g", "g", "g", "g", "g", "g", "g", "g", "g", "g", "g", "g", "g", "t" >>

ExampleLongA == << "G", "A", "G", "G", "G", "A", "G", "G", "G", "G", "G", "G", "G", "G" >>

ExampleLongB == << "G", "G", "G", "G", "G", "G", "G", "G", "T", "G", "G", "G", "T", "G" >>

\* the stem and loop of ExampleHairpin scrambled: no stem closes the 3' end
ExampleScrambled == << "C", "C", "C", "C", "C", "G", "G", "G", "G", "G", "A", "A", "A", "A", "A" >>

\* ExampleHairpin with one and with two unpaired bases after its stem
ExampleTrailing1 == ExampleHairpin \o << "A" >>

ExampleTrailing2 == ExampleHairpin \o << "A", "A" >>

\* an A/T stem of 3 closing a loop of 16
ExampleWeakHairpin ==
    << "A", "A", "A" >> \o [i \in 1 .. 16 |-> "G"] \o << "T", "T", "T" >>

\* a stem of 15 around a loop of 3
ExampleLongStem ==
    [i \in 1 .. 15 |-> "G"] \o << "A", "A", "A" >> \o [i \in 1 .. 15 |-> "C"]

\* the dialog's primer and, if one is selected, the stored primer of the
\* cross-dimer
Selected(oligos) == { << >> } \cup { << t >> : t \in oligos }

ExampleInputs ==
    { << ExampleHairpin, << >> >>,
      << ExampleScrambled, << >> >>,
      << ExampleTrailing1, << >> >>,
      << ExampleTrailing2, << >> >>,
      << ExampleWeakHairpin, << >> >>,
      << ExampleLongStem, << >> >>,
      << ExampleWeakA, << ExampleWeakB >> >>,
      << ExampleLongA, << ExampleLongB >> >>,
      << ExampleLongB, << ExampleLongA >> >>,
      << << "A", "C", "C" >>, << << "G", "G", "A" >> >> >>,
      << << "G", "G", "A" >>, << << "A", "C", "C" >> >> >>,
      << << "n", "n" >>, << << "n", "n" >> >> >>,
      << << "a", "t" >>, << << "a", "t" >> >> >>,
      << << "[", "c", "c", "]", "a", "a" >>, << << "G", "G" >> >> >> }

DialogInputs ==
    ((ShortOligos \cup ChunkOligos) \X Selected(ShortOligos)) \cup ExampleInputs

\* primers of the thermodynamics: every short string of plain and LNA bases,
\* each also with a tail before or after it, and examples
MaxRawLen == 3

ThermoAlphabet == {"a", "G", "c"}

Tails == { << "[", "G", "]" >>, << "[", "a", "t", "]" >> }

PlainPrimers == StringsUpTo(ThermoAlphabet, MaxRawLen)

\* a separator between bases
ExampleDashed == << "a", "-", "G" >>

\* no step of the table
ExampleUnknown == << "n", "n" >>

ExampleTT == << "t", "t", "[", "G", "C", "]" >>

\* four bases and their reverse complement: three steps summed in opposite
\* orders
ExampleFour == << "a", "a", "c", "a" >>

ExampleFourRC == << "t", "g", "t", "t" >>

RawSequences ==
    PlainPrimers
        \cup { tail \o p : tail \in Tails, p \in PlainPrimers }
        \cup { p \o tail : tail \in Tails, p \in PlainPrimers }
        \cup { ExampleDashed, ExampleUnknown, ExampleTT, ExampleFour, ExampleFourRC }

\* no template (the dialog without a project) or the slice under the primer
TemplateSlices == { << >>, << "a", "g", "a" >>, << "g", "g" >> }

\* the defaults (divalent), monovalent without magnesium, monovalent with the
\* ratio below 0.22, monovalent with the dNTP above the magnesium, no ions,
\* and magnesium alone
ThermoSettings ==
    { DEFAULT_THERMO_SETTINGS,
      [oligoConc |-> 25, naConc |-> 500, mgConc |-> 0, dntpConc |-> 0],
      [oligoConc |-> 25, naConc |-> 500, mgConc |-> 9, dntpConc |-> 8],
      [oligoConc |-> 25, naConc |-> 500, mgConc |-> 5, dntpConc |-> 8],
      [oligoConc |-> 25, naConc |-> 0, mgConc |-> 0, dntpConc |-> 0],
      [oligoConc |-> 25, naConc |-> 0, mgConc |-> 30, dntpConc |-> 8] }

\* sequences imported into a project, a project saved with one primer, the
\* values typed into the dialog's text area, and the number of primers kept
ProjectSequences == { << "c", "g" >>, << "t", "c", "c" >> }

MaxPrimers == 1

ExamplePrimer == [id |-> 0, sequence |-> << "c" >>, strand |-> "F", start |-> 0, length |-> 1]

SavedProjects ==
    { [freshProject(<< "c", "g" >>) EXCEPT !.primers = << ExamplePrimer >>] }

TypedValues ==
    { << "a", "c", "g", "t" >>, << "[", "T", "]", "c", "-", "g", "1" >> }

----------------------------------------------------------------------------
(* State machine: each specification draws the inputs of one function and  *)
(* applies it.                                                             *)

CompatIdle ==
    /\ primerBase = "" /\ templateBase = "" /\ pcCompat = "idle" /\ compatible = FALSE

ComplementIdle ==
    /\ seq = << >> /\ fn = "idle" /\ calls = 0 /\ complemented = << >>

StrandIdle ==
    /\ sequence = << >> /\ methylatedF = << >> /\ methylatedR = << >>
    /\ pcStrand = "idle" /\ strandSequences = [type \in StrandType |-> << >>]

SearchIdle ==
    /\ strandSeq = << >> /\ query = << >> /\ strandType = "F" /\ maxMismatches = 0
    /\ pcSearch = "idle" /\ results = << >>

StructureIdle ==
    /\ primerSequence = << >> /\ crossTarget = << >> /\ pcStructure = "idle"
    /\ hairpin = null /\ selfDimer = null /\ crossDimer = null

ThermoIdle ==
    /\ rawSequence = << >> /\ templateSequence = << >> /\ isMGB = FALSE
    /\ settings = DEFAULT_THERMO_SETTINGS /\ pcThermo = "idle" /\ stats = sentinel

\* the state of App when it is constructed; the dialog is not mounted
ProjectIdle ==
    /\ data = freshProject(<< >>) /\ selection = null /\ showPrimerDialog = FALSE
    /\ editingPrimer = null /\ dialogSequence = << >>

CompatInit ==
    /\ primerBase \in BaseArgs
    /\ templateBase \in BaseArgs
    /\ pcCompat = "ready"
    /\ compatible = FALSE

\* one call isBaseCompatible(primerBase, templateBase): toUpperCase on a missing
\* argument throws a TypeError, otherwise the boolean is returned
CallIsBaseCompatible ==
    /\ pcCompat = "ready"
    /\ IF primerBase = undefined \/ templateBase = undefined
       THEN /\ pcCompat' = "threw"
            /\ compatible' = compatible
       ELSE /\ pcCompat' = "returned"
            /\ compatible' = isBaseCompatible(primerBase, templateBase)
    /\ UNCHANGED << primerBase, templateBase, complementVars, strandVars, searchVars, structureVars, thermoVars,
                    projectVars >>

ComplementInit ==
    /\ seq \in StringsUpTo(ComplementAlphabet, MaxSeqLen)
    /\ fn \in {"getComplement", "getReverseComplement"}
    /\ calls = 0
    /\ complemented = seq

\* complemented = getComplement(complemented)
CallGetComplement ==
    /\ fn = "getComplement"
    /\ calls < 2
    /\ complemented' = getComplement(complemented)
    /\ calls' = calls + 1
    /\ UNCHANGED << seq, fn, compatVars, strandVars, searchVars, structureVars, thermoVars,
                    projectVars >>

\* complemented = getReverseComplement(complemented)
CallGetReverseComplement ==
    /\ fn = "getReverseComplement"
    /\ calls < 2
    /\ complemented' = getReverseComplement(complemented)
    /\ calls' = calls + 1
    /\ UNCHANGED << seq, fn, compatVars, strandVars, searchVars, structureVars, thermoVars,
                    projectVars >>

StrandInit ==
    /\ sequence \in StringsUpTo(TopAlphabet, MaxTopLen)
    /\ methylatedF \in IndexArrays(Len(sequence))
    /\ methylatedR \in IndexArrays(Len(sequence))
    /\ pcStrand = "ready"
    /\ strandSequences = [type \in StrandType |-> << >>]

\* the viewer's strand map: getStrandSequence for each of the six strand types
DeriveStrands ==
    /\ pcStrand = "ready"
    /\ strandSequences' =
           [type \in StrandType |-> getStrandSequence(sequence, methylatedF, methylatedR, type)]
    /\ pcStrand' = "derived"
    /\ UNCHANGED << sequence, methylatedF, methylatedR, compatVars, complementVars, searchVars, structureVars, thermoVars,
                    projectVars >>

SearchInit ==
    /\ strandSeq \in Subjects
    /\ query \in Queries
    /\ strandType \in StrandType
    /\ maxMismatches \in 0 .. MaxMismatch
    /\ pcSearch = "ready"
    /\ results = << >>

\* results = searchSequence(strandSeq, query, strandType, maxMismatches)
CallSearchSequence ==
    /\ pcSearch = "ready"
    /\ results' = searchSequence(strandSeq, query, strandType, maxMismatches)
    /\ pcSearch' = "returned"
    /\ UNCHANGED << strandSeq, query, strandType, maxMismatches,
                    compatVars, complementVars, strandVars, structureVars, thermoVars,
                    projectVars >>

\* the primer dialog opens on a primer, with or without a cross-dimer target
StructureInit ==
    /\ \E input \in DialogInputs :
          primerSequence = input[1] /\ crossTarget = input[2]
    /\ pcStructure = "hairpin"
    /\ hairpin = null /\ selfDimer = null /\ crossDimer = null

\* the render evaluates its memoised values in order: hairpin first
ComputeHairpin ==
    /\ pcStructure = "hairpin"
    /\ hairpin' = findMostStableHairpin(primerSequence)
    /\ pcStructure' = "selfDimer"
    /\ UNCHANGED << primerSequence, crossTarget, selfDimer, crossDimer,
                    compatVars, complementVars, strandVars, searchVars, thermoVars,
                    projectVars >>

ComputeSelfDimer ==
    /\ pcStructure = "selfDimer"
    /\ selfDimer' = findMostStableDimer(primerSequence, primerSequence)
    /\ pcStructure' = "crossDimer"
    /\ UNCHANGED << primerSequence, crossTarget, hairpin, crossDimer,
                    compatVars, complementVars, strandVars, searchVars, thermoVars,
                    projectVars >>

\* if (!crossTarget) return null
ComputeCrossDimer ==
    /\ pcStructure = "crossDimer"
    /\ crossDimer' = IF crossTarget = << >> THEN null
                     ELSE findMostStableDimer(primerSequence, crossTarget[1])
    /\ pcStructure' = "rendered"
    /\ UNCHANGED << primerSequence, crossTarget, hairpin, selfDimer,
                    compatVars, complementVars, strandVars, searchVars, thermoVars,
                    projectVars >>

\* the dialog's sequence, MGB flag, template slice and thermodynamic settings
ThermoInit ==
    /\ rawSequence \in RawSequences
    /\ templateSequence \in TemplateSlices
    /\ isMGB \in BOOLEAN
    /\ settings \in ThermoSettings
    /\ pcThermo = "ready"
    /\ stats = sentinel

\* stats = calculateThermodynamics(sequence, targetSeq, isMGB, thermoSettings);
\* pcThermo records the return path taken
CallCalculateThermodynamics ==
    /\ pcThermo = "ready"
    /\ \E r \in {calculateThermodynamics(rawSequence, templateSequence, isMGB, settings)} :
           /\ pcThermo' = r.path
           /\ stats' = r.stats
    /\ UNCHANGED << rawSequence, templateSequence, isMGB, settings,
                    compatVars, complementVars, strandVars, searchVars, structureVars,
                    projectVars >>

DialogMounted == dialogMounted(showPrimerDialog, editingPrimer, selection)

\* processFile on a sequence file: parseGenBank gives a non-empty sequence
ImportSequence ==
    /\ ~DialogMounted
    /\ \E s \in ProjectSequences : data' = freshProject(s)
    /\ selection' = null
    /\ UNCHANGED << showPrimerDialog, editingPrimer, dialogSequence,
                    compatVars, complementVars, strandVars, searchVars,
                    structureVars, thermoVars >>

\* processFile on a saved project
LoadProject ==
    /\ ~DialogMounted
    /\ \E loaded \in SavedProjects : data' = loaded
    /\ selection' = null
    /\ UNCHANGED << showPrimerDialog, editingPrimer, dialogSequence,
                    compatVars, complementVars, strandVars, searchVars,
                    structureVars, thermoVars >>

\* handleMouseDown of the viewer on a base it renders
HandleMouseDown ==
    /\ ~DialogMounted
    /\ \E strand \in StrandType, index \in 0 .. Len(data.sequence) - 1 :
           selection' = [strand |-> strand, start |-> index, end |-> index]
    /\ UNCHANGED << data, showPrimerDialog, editingPrimer, dialogSequence,
                    compatVars, complementVars, strandVars, searchVars,
                    structureVars, thermoVars >>

\* onMouseMove over a base: prev ? { ...prev, end: parseInt(dataIdx) } : null
OnMouseMove ==
    /\ ~DialogMounted
    /\ selection # null
    /\ \E index \in 0 .. Len(data.sequence) - 1 :
           selection' = [selection EXCEPT !.end = index]
    /\ UNCHANGED << data, showPrimerDialog, editingPrimer, dialogSequence,
                    compatVars, complementVars, strandVars, searchVars,
                    structureVars, thermoVars >>

\* onClick of a primer drawn by the viewer
ClickPrimer ==
    /\ ~DialogMounted
    /\ \E k \in DOMAIN data.primers :
           selection' = [strand |-> data.primers[k].strand,
                         start |-> data.primers[k].start,
                         end |-> data.primers[k].start + data.primers[k].length - 1]
    /\ UNCHANGED << data, showPrimerDialog, editingPrimer, dialogSequence,
                    compatVars, complementVars, strandVars, searchVars,
                    structureVars, thermoVars >>

\* if (!selection) return; setData(prev => ...)
HandleMarkMethylation ==
    /\ ~DialogMounted
    /\ data' = IF selection = null THEN data ELSE markMethylation(data, selection)
    /\ UNCHANGED << selection, showPrimerDialog, editingPrimer, dialogSequence,
                    compatVars, complementVars, strandVars, searchVars,
                    structureVars, thermoVars >>

\* the toolbar's button, enabled under a selection; the dialog mounts with the
\* selected sequence
OnAddPrimer ==
    /\ ~DialogMounted
    /\ selection # null /\ data.sequence # << >>
    /\ Len(data.primers) < MaxPrimers
    /\ editingPrimer' = null
    /\ showPrimerDialog' = TRUE
    /\ dialogSequence' = selectedSequence(data, selection, null)
    /\ UNCHANGED << data, selection,
                    compatVars, complementVars, strandVars, searchVars,
                    structureVars, thermoVars >>

\* onDoubleClick of a primer drawn by the viewer; the dialog mounts with the
\* primer's sequence
OnEditPrimer ==
    /\ ~DialogMounted
    /\ \E k \in DOMAIN data.primers :
           /\ editingPrimer' = data.primers[k]
           /\ dialogSequence' = selectedSequence(data, selection, data.primers[k])
    /\ showPrimerDialog' = TRUE
    /\ UNCHANGED << data, selection,
                    compatVars, complementVars, strandVars, searchVars,
                    structureVars, thermoVars >>

\* onChange of the dialog's text area
OnChange ==
    /\ DialogMounted
    /\ \E value \in TypedValues : dialogSequence' = onChangeValue(value)
    /\ UNCHANGED << data, selection, showPrimerDialog, editingPrimer,
                    compatVars, complementVars, strandVars, searchVars,
                    structureVars, thermoVars >>

\* onConfirm of the dialog; the dialog unmounts
OnConfirm ==
    /\ DialogMounted
    /\ data' = confirmPrimer(data, editingPrimer,
                             dialogPrimer(dialogSequence, editingPrimer, selection))
    /\ showPrimerDialog' = FALSE
    /\ editingPrimer' = null
    /\ dialogSequence' = << >>
    /\ UNCHANGED << selection,
                    compatVars, complementVars, strandVars, searchVars,
                    structureVars, thermoVars >>

\* the dialog's delete button, drawn for a stored primer; the dialog unmounts
HandleDeletePrimer ==
    /\ DialogMounted
    /\ editingPrimer # null
    /\ data' = deletePrimer(data, editingPrimer.id)
    /\ showPrimerDialog' = FALSE
    /\ editingPrimer' = null
    /\ dialogSequence' = << >>
    /\ UNCHANGED << selection,
                    compatVars, complementVars, strandVars, searchVars,
                    structureVars, thermoVars >>

\* onCancel of the dialog; the dialog unmounts
OnCancel ==
    /\ DialogMounted
    /\ showPrimerDialog' = FALSE
    /\ editingPrimer' = null
    /\ dialogSequence' = << >>
    /\ UNCHANGED << data, selection,
                    compatVars, complementVars, strandVars, searchVars,
                    structureVars, thermoVars >>

InitCompat == CompatInit /\ ComplementIdle /\ StrandIdle /\ SearchIdle
    /\ StructureIdle /\ ThermoIdle /\ ProjectIdle

InitComplement == ComplementInit /\ CompatIdle /\ StrandIdle /\ SearchIdle
    /\ StructureIdle /\ ThermoIdle /\ ProjectIdle

InitStrand == StrandInit /\ CompatIdle /\ ComplementIdle /\ SearchIdle
    /\ StructureIdle /\ ThermoIdle /\ ProjectIdle

InitSearch == SearchInit /\ CompatIdle /\ ComplementIdle /\ StrandIdle
    /\ StructureIdle /\ ThermoIdle /\ ProjectIdle

InitStructure ==
    StructureInit /\ CompatIdle /\ ComplementIdle /\ StrandIdle /\ SearchIdle
    /\ ThermoIdle /\ ProjectIdle

InitThermo ==
    ThermoInit /\ CompatIdle /\ ComplementIdle /\ StrandIdle /\ SearchIdle
    /\ StructureIdle /\ ProjectIdle

InitProject ==
    ProjectIdle /\ CompatIdle /\ ComplementIdle /\ StrandIdle /\ SearchIdle
    /\ StructureIdle /\ ThermoIdle

NextStructure == ComputeHairpin \/ ComputeSelfDimer \/ ComputeCrossDimer

NextComplement == CallGetComplement \/ CallGetReverseComplement

\* a project imported or loaded, selections and the marking of methylation
NextMarking ==
    \/ ImportSequence
    \/ LoadProject
    \/ HandleMouseDown
    \/ OnMouseMove
    \/ ClickPrimer
    \/ HandleMarkMethylation

\* a project imported, selections and the primer dialog
NextPrimers ==
    \/ ImportSequence
    \/ HandleMouseDown
    \/ OnMouseMove
    \/ ClickPrimer
    \/ OnAddPrimer
    \/ OnEditPrimer
    \/ OnChange
    \/ OnConfirm
    \/ HandleDeletePrimer
    \/ OnCancel

SpecCompat == InitCompat /\ [][CallIsBaseCompatible]_vars

SpecComplement == InitComplement /\ [][NextComplement]_vars

SpecStrand == InitStrand /\ [][DeriveStrands]_vars

SpecSearch == InitSearch /\ [][CallSearchSequence]_vars

SpecStructure == InitStructure /\ [][NextStructure]_vars

SpecThermo == InitThermo /\ [][CallCalculateThermodynamics]_vars

SpecMarking == InitProject /\ [][NextMarking]_vars

SpecPrimers == InitProject /\ [][NextPrimers]_vars

Init ==
    InitCompat \/ InitComplement \/ InitStrand \/ InitSearch \/ InitStructure
        \/ InitThermo \/ InitProject

Next ==
    \/ CallIsBaseCompatible
    \/ CallGetComplement
    \/ CallGetReverseComplement
    \/ DeriveStrands
    \/ CallSearchSequence
    \/ ComputeHairpin
    \/ ComputeSelfDimer
    \/ ComputeCrossDimer
    \/ CallCalculateThermodynamics
    \/ NextMarking
    \/ NextPrimers

Spec == Init /\ [][Next]_vars

----------------------------------------------------------------------------
(* Claims C1-C5: strand derivation (SpecStrand).                           *)

\* the Watson-Crick partner of a base, case kept; any other character is its own
PairOf(b) ==
    CASE b = "a" -> "t" [] b = "t" -> "a" [] b = "c" -> "g" [] b = "g" -> "c"
      [] b = "A" -> "T" [] b = "T" -> "A" [] b = "C" -> "G" [] b = "G" -> "C"
      [] OTHER -> b

Positions == 1 .. Len(sequence)

\* C1: for a top strand of length >= 1 and any two methylation arrays, strand F is
\* the lower-cased top strand, and strand R holds at every position i the
\* complement of the lower-cased top base at the same position i (not reversed).
C1_ForwardAndAlignedComplement ==
    (pcStrand = "derived" /\ Len(sequence) >= 1) =>
        /\ Len(strandSequences["F"]) = Len(sequence)
        /\ \A i \in Positions : strandSequences["F"][i] = lowerChar(sequence[i])
        /\ Len(strandSequences["R"]) = Len(sequence)
        /\ \A i \in Positions : strandSequences["R"][i] = PairOf(lowerChar(sequence[i]))

\* a two-base strand whose aligned complement differs from its reverse complement
C1_Witness ==
    /\ pcStrand = "derived"
    /\ sequence = << "C", "t" >>
    /\ methylatedF = << 0 >>
    /\ strandSequences["F"] = << "c", "t" >>
    /\ strandSequences["R"] = << "g", "a" >>

\* C2: in strand OT, a 'c' of the lower-cased top strand at a position of the
\* methylated-top array stays 'c', a 'c' at any other position becomes 't', and
\* every position whose top base is not 'c' keeps its (lower-cased) base.
C2_BisulfiteOT ==
    pcStrand = "derived" =>
        /\ Len(strandSequences["OT"]) = Len(sequence)
        /\ \A i \in Positions :
              LET b == lowerChar(sequence[i])
                  o == strandSequences["OT"][i]
              IN  /\ (b = "c" /\ includes(methylatedF, i - 1)) => o = "c"
                  /\ (b = "c" /\ ~includes(methylatedF, i - 1)) => o = "t"
                  /\ b # "c" => o = b

\* an upper-case C converted beside a methylated c that is kept
C2_Witness ==
    /\ pcStrand = "derived"
    /\ sequence = << "C", "c" >>
    /\ methylatedF = << 1 >>
    /\ strandSequences["OT"] = << "t", "c" >>

\* C3: CTOT is the position-wise complement of OT; OB is the bisulfite conversion
\* of the position-wise complement of the top strand against the
\* methylated-bottom array; CTOB is the position-wise complement of OB.
C3_ComplementaryStrands ==
    pcStrand = "derived" =>
        /\ \A type \in {"CTOT", "OB", "CTOB"} : Len(strandSequences[type]) = Len(sequence)
        /\ \A i \in Positions :
              LET bottom == PairOf(lowerChar(sequence[i]))
              IN  /\ strandSequences["CTOT"][i] = PairOf(strandSequences["OT"][i])
                  /\ strandSequences["OB"][i] =
                        IF bottom = "c" /\ ~includes(methylatedR, i - 1) THEN "t" ELSE bottom
                  /\ strandSequences["CTOB"][i] = PairOf(strandSequences["OB"][i])

\* two bottom-strand c's, the first methylated on the bottom only
C3_Witness ==
    /\ pcStrand = "derived"
    /\ sequence = << "G", "G" >>
    /\ methylatedF = << >>
    /\ methylatedR = << 0 >>
    /\ strandSequences["OB"] = << "c", "t" >>
    /\ strandSequences["CTOB"] = << "g", "a" >>
    /\ strandSequences["CTOT"] = << "c", "c" >>

\* C4: all six derived strands have exactly the length of the top strand.
C4_SameLength ==
    pcStrand = "derived" =>
        \A type \in StrandType : Len(strandSequences[type]) = Len(sequence)

\* a strand holding a convertible base and a character outside the DNA alphabet
C4_Witness ==
    /\ pcStrand = "derived"
    /\ sequence = << "n", "c" >>
    /\ \A type \in StrandType : Len(strandSequences[type]) = 2

\* an index that is negative, past the end, or at which strand s holds no 'c'
Malformed(j, s) == j < 0 \/ j >= Len(s) \/ charAt(s, j) # "c"

\* C5: adding to the top (bottom) methylation array an index that is negative,
\* >= the length, or at which the top (bottom) strand holds no 'c' leaves all six
\* derived strands as they are.
C5_MalformedIndexInert ==
    pcStrand = "derived" =>
        \A j \in -1 .. Len(sequence) + 1 : \A type \in StrandType :
            /\ Malformed(j, toLowerCase(sequence)) =>
                   getStrandSequence(sequence, Append(methylatedF, j), methylatedR, type)
                       = strandSequences[type]
            /\ Malformed(j, getComplement(toLowerCase(sequence))) =>
                   getStrandSequence(sequence, methylatedF, Append(methylatedR, j), type)
                       = strandSequences[type]

\* the arrays hold only malformed indices and every c is converted all the same
C5_Witness ==
    /\ pcStrand = "derived"
    /\ sequence = << "c", "G" >>
    /\ methylatedF = << 1 >>
    /\ methylatedR = << 2 >>
    /\ strandSequences["OT"] = << "t", "g" >>
    /\ strandSequences["OB"] = << "g", "t" >>

----------------------------------------------------------------------------
(* Claims C6-C8: isBaseCompatible (SpecCompat).                            *)

InTable(c) == upperChar(c) \in DOMAIN IUPAC_MAP

Represented(c) == IUPAC_MAP[upperChar(c)]

C7_MissingIsIncompatible ==
    (/\ pcCompat \in {"returned", "threw"}
     /\ (primerBase \in {"", undefined} \/ templateBase \in {"", undefined})) =>
        (pcCompat = "returned" /\ ~compatible)

\* C8: 'N' is compatible with every concrete base in either case, 'A' with 'A',
\* and 'A' is not compatible with 'C'.
C8_Examples ==
    pcCompat = "returned" =>
        /\ (primerBase = "N" /\ templateBase \in ConcreteBases) => compatible
        /\ (primerBase = "A" /\ templateBase = "A") => compatible
        /\ (primerBase = "A" /\ templateBase = "C") => ~compatible

C8_Witness ==
    /\ pcCompat = "returned"
    /\ primerBase = "N"
    /\ templateBase = "g"
    /\ compatible

----------------------------------------------------------------------------
(* Claim C9: complement round trips (SpecComplement).                      *)

\* C9: complementing a concrete base twice gives the base back, and the reverse
\* complement of the reverse complement of any string is the string, characters
\* outside the DNA alphabet included.
C9_RoundTrip ==
    calls = 2 =>
        /\ (fn = "getComplement" /\ Len(seq) = 1 /\ seq[1] \in ConcreteBases) =>
               complemented = seq
        /\ fn = "getReverseComplement" => complemented = seq

\* a non-palindromic string with a character outside the DNA alphabet, after two
\* reverse complements
C9_Witness ==
    /\ fn = "getReverseComplement"
    /\ calls = 2
    /\ seq = << "G", "n", "a" >>
    /\ complemented = seq

----------------------------------------------------------------------------
(* Claim C10: forward search (SpecSearch).                                 *)

\* the number of positions j at which q[j] is incompatible with s[i + j]
MismatchCount(q, s, i) ==
    Cardinality({ j \in 0 .. Len(q) - 1 : ~isBaseCompatible(charAt(q, j), charAt(s, i + j)) })

\* the hits expected for pattern q: one per offset within budget, ascending, each
\* with start, inclusive end and exact mismatch count
IsHitList(hits, q, s, maxMis) ==
    LET offsets == { i \in 0 .. Len(s) - Len(q) : MismatchCount(q, s, i) <= maxMis }
    IN  /\ Len(hits) = Cardinality(offsets)
        /\ \A a \in DOMAIN hits :
              /\ hits[a].start \in offsets
              /\ hits[a].end = hits[a].start + Len(q) - 1
              /\ hits[a].mismatches = MismatchCount(q, s, hits[a].start)
        /\ \A a, b \in DOMAIN hits : a < b => hits[a].start < hits[b].start

ForwardDisplayed == {"F", "OT", "CTOB"}

\* C10 as stated: the hits are those of the query as given.
C10_HitsOfRawQuery ==
    (pcSearch = "returned" /\ strandType \in ForwardDisplayed) =>
        IsHitList(results, query, strandSeq, maxMismatches)

\* C10 amended: with q the query after removing every '[' and ']', no hit when q is
\* empty or longer than the strand, and otherwise exactly the hits of q; the two
\* examples of the claim give (0,3),(4,7) and a single hit with one mismatch.
C10_HitsOfCleanQuery ==
    (pcSearch = "returned" /\ strandType \in ForwardDisplayed) =>
        LET q == stripBrackets(query)
        IN  /\ IF Len(q) = 0
               THEN results = << >>
               ELSE IsHitList(results, q, strandSeq, maxMismatches)
            /\ (strandSeq = ExampleStrand1 /\ query = ExampleQuery /\ maxMismatches = 0) =>
                   results = << [start |-> 0, end |-> 3, mismatches |-> 0],
                                [start |-> 4, end |-> 7, mismatches |-> 0] >>
            /\ (strandSeq = ExampleStrand2 /\ query = ExampleQuery /\ maxMismatches = 1) =>
                   results = << [start |-> 0, end |-> 3, mismatches |-> 1] >>

\* overlapping hits of a degenerate query, one of them with a mismatch
C10_Witness ==
    /\ pcSearch = "returned"
    /\ strandType = "OT"
    /\ strandSeq = << "a", "g", "C" >>
    /\ query = << "R", "G" >>
    /\ maxMismatches = 1
    /\ results = << [start |-> 0, end |-> 1, mismatches |-> 0],
                    [start |-> 1, end |-> 2, mismatches |-> 1] >>

----------------------------------------------------------------------------
(* Claim C11: search direction (SpecSearch).                               *)

\* the hits of pattern q, or none when q is empty
IsHitListOrNone(hits, q, s, maxMis) ==
    IF Len(q) = 0 THEN hits = << >> ELSE IsHitList(hits, q, s, maxMis)

\* C11: on the reverse-displayed strands R, CTOT and OB the search returns the
\* hit list of the reversed query on strand type F (the hits of the reversed,
\* bracket-free query); on F, OT and CTOB the query is matched unreversed.
C11_ReverseDisplayedReversesQuery ==
    pcSearch = "returned" =>
        /\ strandType \in {"R", "CTOT", "OB"} =>
              /\ results = searchSequence(strandSeq, reverse(query), "F", maxMismatches)
              /\ IsHitListOrNone(results, reverse(stripBrackets(query)), strandSeq, maxMismatches)
        /\ strandType \in {"F", "OT", "CTOB"} =>
              IsHitListOrNone(results, stripBrackets(query), strandSeq, maxMismatches)

\* a query that matches on OB only when read right to left
C11_Witness ==
    /\ pcSearch = "returned"
    /\ strandType = "OB"
    /\ strandSeq = << "g", "a", "C" >>
    /\ query = << "a", "G" >>
    /\ maxMismatches = 0
    /\ results = << [start |-> 0, end |-> 1, mismatches |-> 0] >>

----------------------------------------------------------------------------
(* Claims C14, C19, C20: structure scorers (SpecStructure).                *)

Rendered == pcStructure = "rendered"

HasCrossTarget == crossTarget # << >>

\* C14 as stated: tails are excluded from structure scoring, so each scorer
\* returns what it returns on the primer with every [..] segment removed.
C14_TailsExcluded ==
    Rendered =>
        /\ hairpin = findMostStableHairpin(removeTails(primerSequence))
        /\ selfDimer = findMostStableDimer(removeTails(primerSequence),
                                           removeTails(primerSequence))
        /\ HasCrossTarget =>
              crossDimer = findMostStableDimer(removeTails(primerSequence),
                                               removeTails(crossTarget[1]))

\* C14, amended: the structure scorers ignore only the bracket characters; the
\* bases inside a tail are scored like binding bases, so each scorer returns
\* what it returns on the primer with "[" and "]" deleted and the tail kept.
C14_OnlyBracketsIgnored ==
    Rendered =>
        /\ hairpin = findMostStableHairpin(stripBrackets(primerSequence))
        /\ selfDimer = findMostStableDimer(stripBrackets(primerSequence),
                                           stripBrackets(primerSequence))
        /\ HasCrossTarget =>
              crossDimer = findMostStableDimer(stripBrackets(primerSequence),
                                               stripBrackets(crossTarget[1]))

\* [cc]aa against GG: the tail pairs with the target, the binding region cannot
C14_Witness ==
    /\ Rendered
    /\ primerSequence = << "[", "c", "c", "]", "a", "a" >>
    /\ crossTarget = << << "G", "G" >> >>
    /\ crossDimer # null
    /\ findMostStableDimer(removeTails(primerSequence), crossTarget[1]) = null

\* the offsets of reversed B against A
Shifts(A, B) ==
    1 - Len(stripBrackets(B)) .. Len(stripBrackets(A)) - 1

\* the overlapping positions of A at an offset
Overlap(A, B, shift) ==
    { i \in 0 .. Len(stripBrackets(A)) - 1 :
         i - shift >= 0 /\ i - shift < Len(stripBrackets(B)) }

\* complementary pairs at an offset
PairCount(A, B, shift) ==
    LET q1 == toUpperCase(stripBrackets(A))
        q2Rev == reverse(toUpperCase(stripBrackets(B)))
    IN  Cardinality({ i \in Overlap(A, B, shift) : pairs(q1, q2Rev, shift, i) })

\* total of an offset, accumulated pair by pair in position order
Total(A, B, shift) ==
    scoreShift(toUpperCase(stripBrackets(A)),
               reverse(toUpperCase(stripBrackets(B))), shift).dg

\* result is the minimum total over the candidate offsets, none without any
IsMinimumOver(result, A, B, candidates) ==
    IF candidates = {} THEN result = null
    ELSE /\ result # null
         /\ \E s \in candidates : result.dg = Total(A, B, s)
         /\ \A s \in candidates : ~lessThan(Total(A, B, s), result.dg)

TwoPairs(A, B) == { s \in Shifts(A, B) : PairCount(A, B, s) >= 2 }

TwoPairsBelowZero(A, B) ==
    { s \in TwoPairs(A, B) : lessThan(Total(A, B, s), zero) }

\* C19 as stated: the dimer is the minimum total over all offsets with at
\* least 2 complementary pairs, and none only when no offset has 2 pairs.
C19_MinimumOverTwoPairs ==
    Rendered =>
        /\ IsMinimumOver(selfDimer, primerSequence, primerSequence,
                         TwoPairs(primerSequence, primerSequence))
        /\ HasCrossTarget =>
              IsMinimumOver(crossDimer, primerSequence, crossTarget[1],
                            TwoPairs(primerSequence, crossTarget[1]))

\* C19, amended: the dimer is the minimum total over the offsets that have at
\* least 2 complementary pairs and a total below 0, and none exactly when no
\* offset has both.
C19_MinimumOverNegativeTwoPairs ==
    Rendered =>
        /\ IsMinimumOver(selfDimer, primerSequence, primerSequence,
                         TwoPairsBelowZero(primerSequence, primerSequence))
        /\ HasCrossTarget =>
              IsMinimumOver(crossDimer, primerSequence, crossTarget[1],
                            TwoPairsBelowZero(primerSequence, crossTarget[1]))

\* a later offset beats an earlier candidate and is the one returned
C19_Witness ==
    /\ Rendered
    /\ selfDimer # null
    /\ \E s \in TwoPairsBelowZero(primerSequence, primerSequence) :
       \E t \in TwoPairsBelowZero(primerSequence, primerSequence) :
          /\ s < t
          /\ lessThan(Total(primerSequence, primerSequence, t),
                      Total(primerSequence, primerSequence, s))
          /\ selfDimer.dg = Total(primerSequence, primerSequence, t)

\* C20: the dimer scorer is symmetric: findMostStableDimer(A, B) and
\* findMostStableDimer(B, A) are both none or have the same dg.
C20_DimerSymmetric ==
    (Rendered /\ HasCrossTarget) =>
        crossDimer = findMostStableDimer(crossTarget[1], primerSequence)

----------------------------------------------------------------------------
(* Claims C12, C13, C15-C18: thermodynamics (SpecThermo).                  *)

\* calculateThermodynamics has returned
ThermoReturned == pcThermo \notin {"idle", "ready"}

\* the number of bases left once every bracketed tail segment is removed
BindingBases == Len(lettersOnly(removeTails(rawSequence)))

\* the binding region and the template as the summation reads them
Binding == toLowerCase(lettersOnly(removeTails(rawSequence)))

TemplateRead == toLowerCase(lettersOnly(templateSequence))

\* C12: whenever fewer than 2 bases are left after removing every bracketed
\* tail segment, calculateThermodynamics returns exactly {tm: 0, dg: 0, gc: 0},
\* by its early return, for every template, MGB flag and settings value.
C12_ShortBindingGivesSentinel ==
    (ThermoReturned /\ BindingBases < 2) =>
        /\ pcThermo = "tooShort"
        /\ stats = [tm |-> 0, dg |-> num(0), gc |-> num(0)]

\* a tail and a single base, with a template and the MGB flag set
C12_Witness ==
    /\ pcThermo = "tooShort"
    /\ rawSequence = << "[", "a", "t", "]", "G" >>
    /\ templateSequence # << >>
    /\ isMGB

\* C13: bracketed tail segments do not affect the result: tm, dg and gc are
\* those of the raw string with every [..] segment deleted, also when the tail
\* holds uppercase or G/C characters.
C13_TailsDoNotAffect ==
    ThermoReturned =>
        stats = calculateThermodynamics(removeTails(rawSequence), templateSequence,
                                        isMGB, settings).stats

\* an uppercase G in a tail before a binding region whose Tm is adjusted
C13_Witness ==
    /\ pcThermo = "divalent"
    /\ rawSequence = << "[", "G", "]", "a", "G", "c" >>
    /\ isMGB

\* the binding base at i is incompatible with the template base under it
MismatchedAt(i) ==
    /\ i < Len(TemplateRead)
    /\ ~isBaseCompatible(charAt(Binding, i), charAt(TemplateRead, i))

HasMismatch == \E i \in 0 .. Len(Binding) - 1 : MismatchedAt(i)

\* C15: a nearest-neighbour step with a base incompatible with its template
\* base contributes the mismatch penalty instead of the table value, so the
\* reported dG of a primer with a mismatch differs from its dG with a fully
\* matching template.
C15_MismatchChangesDg ==
    (ThermoReturned /\ pcThermo # "tooShort" /\ HasMismatch) =>
        stats.dg # calculateThermodynamics(rawSequence, Binding, isMGB, settings).stats.dg

SameEnergies(x, y) == x.dh = y.dh /\ x.ds = y.ds

\* a terminal base of the binding region that is A or T and mismatches its
\* template base
TerminalATMismatch ==
    \E i \in {0, Len(Binding) - 1} :
        charAt(Binding, i) \in {"a", "t"} /\ MismatchedAt(i)

\* C16: a terminal A or T that mismatches its template base gets a larger
\* terminal-mismatch penalty instead of the terminal-AT penalty, so dH and dS
\* are not those of the same primer on a matching template.
C16_TerminalMismatchPenalised ==
    (ThermoReturned /\ pcThermo # "tooShort" /\ TerminalATMismatch) =>
        ~SameEnergies(totals(Binding, TemplateRead), totals(Binding, Binding))

\* the free magnesium, in tenths of a millimole per litre
FreeMg == IF settings.mgConc > settings.dntpConc
          THEN settings.mgConc - settings.dntpConc ELSE 0

\* sqrt(freeMg) / monovalent < 0.22 with the concentrations in mol/L: for f
\* and a in tenths of a millimole, sqrt(f / 10^4) / (a / 10^4) < 22 / 100
RatioBelowThreshold ==
    /\ settings.naConc > 0
    /\ 25000000 * FreeMg < 121 * settings.naConc * settings.naConc

\* C17 as stated: the monovalent-only correction is applied exactly when the
\* free magnesium is 0 or the ratio is below 0.22, the divalent correction
\* otherwise.
C17_MonovalentExactlyWhenDominated ==
    (ThermoReturned /\ pcThermo # "tooShort") =>
        /\ pcThermo = "monovalent" <=> (FreeMg = 0 \/ RatioBelowThreshold)
        /\ pcThermo = "divalent" <=> ~(FreeMg = 0 \/ RatioBelowThreshold)

\* C17: the monovalent-only correction is applied exactly when the monovalent
\* concentration is above 0 and the free magnesium is 0 or the ratio is below
\* 0.22; neither correction is applied when the monovalent concentration and
\* the free magnesium are both 0; the divalent correction is applied otherwise.
C17_BranchSelection ==
    (ThermoReturned /\ pcThermo # "tooShort") =>
        /\ pcThermo = "monovalent" <=>
               (settings.naConc > 0 /\ (FreeMg = 0 \/ RatioBelowThreshold))
        /\ pcThermo = "zeroSalt" <=> (settings.naConc = 0 /\ FreeMg = 0)
        /\ pcThermo = "divalent" <=>
               ((settings.naConc = 0 /\ FreeMg > 0)
                   \/ (settings.naConc > 0 /\ FreeMg > 0 /\ ~RatioBelowThreshold))

\* free magnesium present and the ratio below the threshold
C17_Witness ==
    /\ pcThermo = "monovalent"
    /\ FreeMg > 0
    /\ RatioBelowThreshold

\* C18: with monovalent concentration 0 and free magnesium 0 neither salt
\* correction is taken and Tm is the fixed value 0 K = -273.15 degrees, for
\* every binding sequence of 2 bases or more, template, LNA marking and MGB
\* flag.
C18_ZeroSaltSentinel ==
    (ThermoReturned /\ pcThermo # "tooShort" /\ settings.naConc = 0 /\ FreeMg = 0) =>
        /\ pcThermo = "zeroSalt"
        /\ stats.tm = -273150

\* an LNA base, the MGB flag and a mismatched template at once
C18_Witness ==
    /\ pcThermo = "zeroSalt"
    /\ isMGB
    /\ lnaCountOf(rawSequence) > 0
    /\ HasMismatch

----------------------------------------------------------------------------
(* Claims C21, C23, C24, C28: hairpin search (SpecStructure).              *)

\* findMostStableHairpin has returned
HairpinDone == pcStructure \in {"selfDimer", "crossDimer", "rendered"}

\* the primer as the hairpin search reads it
Folded == toUpperCase(stripBrackets(primerSequence))

WatsonCrick == { << "A", "T" >>, << "T", "A" >>, << "G", "C" >>, << "C", "G" >> }

\* in str, the sL bases that end off bases before the 3' end pair, in reverse
\* order, with the sL bases that end lL bases before them
StemCloses(str, sL, lL, off) ==
    /\ Len(str) - off - 2 * sL - lL >= 0
    /\ \A k \in 1 .. sL :
           << str[Len(str) - off - 2 * sL - lL + k], str[Len(str) - off + 1 - k] >>
               \in WatsonCrick

\* the (stem length, loop length) placements whose 3' stem ends off bases
\* before the 3' end, stems and loops of 3 bases or more
Placements(str, off) ==
    { p \in (3 .. Len(str)) \X (3 .. Len(str)) : StemCloses(str, p[1], p[2], off) }

\* the energy of a placement: -3.0 a G/C pair, -2.0 an A/T pair, and the loop
\* penalty 4.5 + 0.1 per loop base
PlacementDg(str, p) ==
    LET first == Len(str) - 2 * p[1] - p[2]
        gcPairs == Cardinality({ k \in 1 .. p[1] : str[first + k] \in {"G", "C"} })
    IN  add(num(-(3 * gcPairs + 2 * (p[1] - gcPairs))),
            add(lit(45), times(p[2], lit(1))))

\* C21: findMostStableHairpin returns the placement of minimum dG among the
\* placements whose upstream stem is the reverse complement of the stem at the
\* 3' end, and none exactly when there is no such placement; on
\* GGGGGAAAAACCCCC it returns the stem GGGGG around the loop AAAAA, and on the
\* scrambled CCCCCGGGGGAAAAA none.
C21_HairpinIsMinimum ==
    HairpinDone =>
        /\ hairpin = null <=> Placements(Folded, 0) = {}
        /\ hairpin # null =>
               /\ \E p \in Placements(Folded, 0) :
                      /\ hairpin.dg = PlacementDg(Folded, p)
                      /\ Len(hairpin.stem) = p[1]
                      /\ Len(hairpin.loop) = p[2]
               /\ \A q \in Placements(Folded, 0) :
                      ~lessThan(PlacementDg(Folded, q), hairpin.dg)
        /\ primerSequence = ExampleHairpin =>
               /\ hairpin # null
               /\ hairpin.stem = << "G", "G", "G", "G", "G" >>
               /\ hairpin.loop = << "A", "A", "A", "A", "A" >>
        /\ primerSequence = ExampleScrambled => hairpin = null

\* the example hairpin, with its shorter stems as competing placements
C21_Witness ==
    /\ HairpinDone
    /\ primerSequence = ExampleHairpin
    /\ hairpin # null
    /\ Cardinality(Placements(Folded, 0)) > 1

\* C23: a sequence with a reverse-complementary stem pair that ends 1 or 2
\* bases before the 3' end is still reported as a hairpin.
C23_TrailingBasesTolerated ==
    (HairpinDone /\ \E off \in {1, 2} : Placements(Folded, off) # {}) =>
        hairpin # null

\* C24: every reported hairpin has a stem of at most 14 and a loop of at most
\* 60 bases.
C24_SearchBounded ==
    (HairpinDone /\ hairpin # null) =>
        Len(hairpin.stem) <= 14 /\ Len(hairpin.loop) <= 60

\* C28: every structure returned by findMostStableDimer or
\* findMostStableHairpin has dG strictly below 0.
C28_ReturnedBelowZero ==
    /\ (HairpinDone /\ hairpin # null) => lessThan(hairpin.dg, num(0))
    /\ selfDimer # null => lessThan(selfDimer.dg, num(0))
    /\ crossDimer # null => lessThan(crossDimer.dg, num(0))

----------------------------------------------------------------------------
(* Claims C25, C29: LNA gain and strand symmetry (SpecThermo).             *)

\* Tm of the primer s under the template, MGB flag and settings of the state
TmWith(s) == calculateThermodynamics(s, templateSequence, isMGB, settings).stats.tm

\* s with the base at j marked as LNA and every other base unmarked
MarkedAt(s, j) ==
    [k \in DOMAIN s |-> IF k = j THEN upperChar(s[k]) ELSE lowerChar(s[k])]

\* the primer is bases only and its one LNA mark is on the G or C at i
OnlyLnaAt(i) ==
    /\ rawSequence[i] \in {"G", "C"}
    /\ \A k \in DOMAIN rawSequence \ {i} : includes(LowerLetters, rawSequence[k])

\* C25: an LNA mark raises Tm, and the raise of an LNA on a G or C is strictly
\* larger than the raise of an LNA on an A or T of the same primer under the
\* same settings.
C25_GcLnaRaisesMore ==
    \A i, j \in DOMAIN rawSequence :
        (ThermoReturned /\ pcThermo # "tooShort" /\ OnlyLnaAt(i)
            /\ rawSequence[j] \in {"a", "t"}) =>
            /\ stats.tm > TmWith(toLowerCase(rawSequence))
            /\ stats.tm - TmWith(toLowerCase(rawSequence))
                   > TmWith(MarkedAt(rawSequence, j)) - TmWith(toLowerCase(rawSequence))

\* the reverse complement of a binding sequence over a, c, g, t
ReverseComplement(b) ==
    [k \in DOMAIN b |->
        CASE b[Len(b) + 1 - k] = "a" -> "t"
          [] b[Len(b) + 1 - k] = "t" -> "a"
          [] b[Len(b) + 1 - k] = "c" -> "g"
          [] b[Len(b) + 1 - k] = "g" -> "c"]

\* a call without template on a binding sequence over a, c, g, t of 2 bases or
\* more
PlainCall ==
    /\ ThermoReturned
    /\ templateSequence = << >>
    /\ Len(Binding) >= 2
    /\ \A k \in DOMAIN Binding : Binding[k] \in {"a", "c", "g", "t"}

roundingTolerance == Number(FALSE, [i \in 1 .. Limbs |-> IF i = 3 THEN 262144 ELSE 0])

\* |x - y| < 2^-30
Near(x, y) == lessThan(Number(FALSE, sub(x, y).m), roundingTolerance)

----------------------------------------------------------------------------
(* Claims C26, C27, C30: marking of methylation (SpecMarking).             *)

\* the indices an array holds
SetOf(arr) == { arr[k] : k \in DOMAIN arr }

SymmetricDifference(A, B) == (A \ B) \cup (B \ A)

\* the positions of the selected range at which the strand selected, as it is
\* derived now, holds a 'c'
Touched ==
    { i \in min(selection.start, selection.end) .. max(selection.start, selection.end) :
        charAt(getStrandSequence(data.sequence, data.methylatedF, data.methylatedR,
                                 selection.strand), i) = "c" }

C27_MarksPointAtC ==
    /\ \A k \in DOMAIN data.methylatedF :
           /\ data.methylatedF[k] \in 0 .. Len(data.sequence) - 1
           /\ charAt(toLowerCase(data.sequence), data.methylatedF[k]) = "c"
    /\ \A k \in DOMAIN data.methylatedR :
           /\ data.methylatedR[k] \in 0 .. Len(data.sequence) - 1
           /\ charAt(getComplement(toLowerCase(data.sequence)), data.methylatedR[k]) = "c"
    /\ Cardinality(SetOf(data.methylatedF)) = Len(data.methylatedF)
    /\ Cardinality(SetOf(data.methylatedR)) = Len(data.methylatedR)

\* marks on both strands of a sequence with a 'c' and a 'g'
C27_Witness ==
    /\ data.methylatedF # << >>
    /\ data.methylatedR # << >>

\* C30: handleMarkMethylation applied twice under the same selection gives back
\* both methylation sets.
C30_MarkTwiceRestores ==
    selection # null =>
        /\ SetOf(markMethylation(markMethylation(data, selection), selection).methylatedF)
               = SetOf(data.methylatedF)
        /\ SetOf(markMethylation(markMethylation(data, selection), selection).methylatedR)
               = SetOf(data.methylatedR)

----------------------------------------------------------------------------
(* Claim C22: stored primers (SpecPrimers).                                *)

\* C22: after any creations, edits and deletions through the primer dialog,
\* the start of every stored primer plus its binding length, the number of
\* its characters outside brackets, is at most the length of the project's
\* strand.
C22_PrimersFitStrand ==
    \A k \in DOMAIN data.primers :
        data.primers[k].start + Len(removeTails(data.primers[k].sequence))
            <= Len(data.sequence)

====
